---- MODULE Spec2Model ----
(***************************************************************************)
(* Research2PPT: the application controller of src/App.tsx (a React        *)
(* function component), with the services it awaits.                       *)
(*                                                                         *)
(* A handler runs to its first await in one step; the code after the await *)
(* runs in a later step (a "Settle" action) and reads the values its       *)
(* closure captured when the handler was called, which is what a React     *)
(* function component's handlers do.  An asynchronous operation that has   *)
(* been started and has not settled is a record of the bag pending, with   *)
(* the values its continuation reads.  A handler is enabled when the       *)
(* element that calls it is rendered and not disabled.                     *)
(*                                                                         *)
(* Texts are sequences of one-character strings.  Slide indices are        *)
(* 1-based here and 0-based in the code.                                   *)
(***************************************************************************)
EXTENDS Naturals, Sequences, FiniteSets, Bags, TLC

VARIABLES status, inputText, errorMsg, presentationData, config, activeTab,
          apiKey, pending

vars == <<status, inputText, errorMsg, presentationData, config, activeTab,
          apiKey, pending>>

\* ------------------------------------------------------------- bounds

\* Asynchronous operations in flight at once.
MaxInFlight == 2

\* Selectors (template, audience, length, detail) set away from their
\* initial values at once.
MaxConfigEdits == 1

\* Cover image reads in flight at once.
MaxImageReads == 1

\* Pages of a PDF beyond the page limit of the extraction.
ExtraPages == 2

\* ---------------------------------------------------------- constants

\* text.length < 50 is rejected.
MinTextLen == 50

\* Math.min(numPages, 15)
MaxPdfPages == 15

\* ------------------------------------------------------------- values

AppStatus ==
    {"IDLE", "PARSING_PDF", "GENERATING_CONTENT", "GENERATING_PPT", "SUCCESS", "ERROR"}

TemplateId == {"classic", "modern", "dark", "corporate"}

Audiences == {"academic", "general", "executive"}

DetailLevels == {"brief", "detailed"}

NumSlidesOptions == {5, 8, 12}

\* errorMsg = null
NullMsg == "<null>"

\* an optional string that is not set
undefined == "<undefined>"

\* presentationData = null
NullPresentation == [isNull |-> TRUE]

UnsupportedMsg == "Unsupported file format. Please upload PDF or TXT."

EmptyMsg == "The document appears to be empty or unreadable."

PdfFailMsg == "Failed to extract text from PDF. Please try copying the text manually."

ImageFailMsg == "Failed to process image."

NoTextMsg == "Please provide text or upload a document first."

PptFailMsg == "Failed to generate PPT file."

ApiKeyMsg == "API Key is missing. Please check your environment configuration."

NoContentMsg == "No content generated"

InitialConfig ==
    [numSlides |-> 8, detailLevel |-> "brief", audience |-> "academic",
     template |-> "classic", titleImage |-> undefined]

\* --------------------------------------------------------------- text

Whitespace == {" ", "\n", "\t"}

RECURSIVE TrimStart(_)
TrimStart(s) ==
    IF s # <<>> /\ Head(s) \in Whitespace THEN TrimStart(Tail(s)) ELSE s

RECURSIVE TrimEnd(_)
TrimEnd(s) ==
    IF s # <<>> /\ s[Len(s)] \in Whitespace
    THEN TrimEnd(SubSeq(s, 1, Len(s) - 1))
    ELSE s

\* String.prototype.trim
Trim(s) == TrimEnd(TrimStart(s))

\* n copies of the character c
Repeat(c, n) == [i \in 1..n |-> c]

\* Array.prototype.join
RECURSIVE Join(_, _)
Join(items, sep) ==
    IF items = <<>> THEN <<>>
    ELSE IF Len(items) = 1 THEN items[1]
    ELSE items[1] \o sep \o Join(Tail(items), sep)

\* ------------------------------------------------------ PDF extraction

\* The loop of extractTextFromPdf from page i on: each page's items joined by a
\* blank, followed by two line feeds.
RECURSIVE PagesFrom(_, _, _)
PagesFrom(pages, i, maxPages) ==
    IF i > maxPages THEN <<>>
    ELSE Join(pages[i], <<" ">>) \o <<"\n", "\n">> \o PagesFrom(pages, i + 1, maxPages)

Min(a, b) == IF a < b THEN a ELSE b

\* extractTextFromPdf with maxPages = numPages.
extractTextFromPdf_AllPages(file) ==
    IF file.corrupt
    THEN [ok |-> FALSE, message |-> PdfFailMsg]
    ELSE [ok |-> TRUE, text |-> PagesFrom(file.pages, 1, Len(file.pages))]

\* extractTextFromPdf: a document the engine cannot read throws PdfFailMsg.
extractTextFromPdf(file) ==
    IF file.corrupt
    THEN [ok |-> FALSE, message |-> PdfFailMsg]
    ELSE [ok |-> TRUE,
          text |-> PagesFrom(file.pages, 1, Min(Len(file.pages), MaxPdfPages))]

\* -------------------------------------------------------------- inputs

TxtFile(n) == [type |-> "text/plain", content |-> Repeat("a", n)]

PngFile == [type |-> "image/png"]

\* Five pages of two items: 5 * (3 + 1 + 4 + 2) = 50 characters extracted.
PdfGood ==
    [type |-> "application/pdf", corrupt |-> FALSE,
     pages |-> [p \in 1..5 |-> <<Repeat("b", 3), Repeat("c", 4)>>]]

\* One page of three characters.
PdfShort ==
    [type |-> "application/pdf", corrupt |-> FALSE, pages |-> <<<<Repeat("d", 3)>>>>]

PdfCorrupt == [type |-> "application/pdf", corrupt |-> TRUE, pages |-> <<>>]

\* One character per page, so that a text shows the pages it came from.
PageChars ==
    <<"A", "B", "C", "D", "E", "F", "G", "H", "I", "J", "K", "L", "M", "N", "O", "P",
      "Q", "R", "S", "T", "U", "V", "W", "X", "Y", "Z">>

\* A PDF of n pages; page k holds two text items of len times its character.
PdfOf(n, len) ==
    [type |-> "application/pdf", corrupt |-> FALSE,
     pages |-> [k \in 1..n |-> <<Repeat(PageChars[k], len), Repeat(PageChars[k], len)>>]]

\* PDFs of no page up to ExtraPages pages beyond the limit, with short and
\* with long items.
PdfFiles ==
    {PdfOf(n, len) : n \in 0..(MaxPdfPages + ExtraPages), len \in {2, 30}}

\* The files a user selects in the document input.
Files ==
    {PngFile, TxtFile(MinTextLen - 1), TxtFile(MinTextLen), PdfGood, PdfShort, PdfCorrupt}

\* What a user leaves in the text area: blanks only, or some text.
TypedTexts == {<<" ", " ">>, <<"h", "i">>}

\* The image file a user selects.
ImageFiles == {[bytes |-> "QUJD"]}

\* fileToBase64: FileReader.readAsDataURL resolves with the file as a data
\* URL (onload), or rejects (onerror).
fileToBase64(file, loaded) ==
    IF loaded
    THEN [ok |-> TRUE, dataUrl |-> "data:image/png;base64," \o file.bytes]
    ELSE [ok |-> FALSE]

\* -------------------------------------------------- generation service

SlideTitles == <<"Introduction", "Results">>

\* A slide as the service returns it: no image.
Slide(n) ==
    [title |-> SlideTitles[n], bulletPoints |-> <<"point">>, speakerNotes |-> "notes",
     image |-> undefined]

\* A deck of two slides with a subtitle, and a deck without slides or subtitle.
DeckA == [title |-> "Deck A", subtitle |-> "Sub A", slides |-> <<Slide(1), Slide(2)>>]

DeckB == [title |-> "Deck B", subtitle |-> undefined, slides |-> <<>>]

ServiceErrorMsg == "503 Service Unavailable"

JsonErrorMsg == "Unexpected token < in JSON at position 0"

\* How ai.models.generateContent settles: it rejects, or resolves with a
\* response whose text is missing, is not JSON, or is a JSON object.
Responses ==
    {[rejected |-> TRUE,  hasText |-> FALSE, isJson |-> FALSE, value |-> DeckB],
     [rejected |-> FALSE, hasText |-> FALSE, isJson |-> FALSE, value |-> DeckB],
     [rejected |-> FALSE, hasText |-> TRUE,  isJson |-> FALSE, value |-> DeckB],
     [rejected |-> FALSE, hasText |-> TRUE,  isJson |-> TRUE,  value |-> DeckA],
     [rejected |-> FALSE, hasText |-> TRUE,  isJson |-> TRUE,  value |-> DeckB]}

\* The JSON text {"slides": []}: an object without a title.
DeckUntitled == [title |-> undefined, subtitle |-> undefined, slides |-> <<>>]

\* The responses above and one whose JSON does not follow the schema of the
\* request: response.text is whatever the service sends.
ServiceResponses ==
    Responses \cup
        {[rejected |-> FALSE, hasText |-> TRUE, isJson |-> TRUE, value |-> DeckUntitled]}

\* initGenAI without the check of the key.
initGenAI_NoCheck(key) == [ok |-> TRUE]

\* initGenAI: throws when process.env.API_KEY is not set.
initGenAI(key) ==
    IF ~key THEN [ok |-> FALSE, message |-> ApiKeyMsg] ELSE [ok |-> TRUE]

\* generatePresentationContent from the service's settling on: the result it
\* resolves with, or the error it rethrows.
generatePresentationContent(response) ==
    IF response.rejected THEN [ok |-> FALSE, message |-> ServiceErrorMsg]
    ELSE IF ~response.hasText THEN [ok |-> FALSE, message |-> NoContentMsg]
    ELSE IF ~response.isJson THEN [ok |-> FALSE, message |-> JsonErrorMsg]
    ELSE [ok |-> TRUE,
          data |-> [title |-> response.value.title,
                    subtitle |-> response.value.subtitle,
                    slides |-> response.value.slides]]

\* How generatePptFile settles (src/services/pptService is not among the
\* sources): it resolves, or it rejects.
ExportOutcomes == {TRUE, FALSE}

\* ---------------------------------------------------------- the state

Init ==
    /\ status = "IDLE"
    /\ inputText = <<>>
    /\ errorMsg = NullMsg
    /\ presentationData = NullPresentation
    /\ config = InitialConfig
    /\ activeTab = "upload"
    /\ apiKey \in BOOLEAN
    /\ pending = EmptyBag

\* The operations of one kind that are in flight.
InFlight(kind) ==
    [op \in {o \in DOMAIN pending : o.kind = kind} |-> pending[op]]

InFlightCount(kind) == BagCardinality(InFlight(kind))

CanStart == BagCardinality(pending) < MaxInFlight

Started(op) == pending' = pending (+) SetToBag({op})

Settled(op) == pending' = pending (-) SetToBag({op})

\* What the component renders.
InputSectionShown == presentationData = NullPresentation

ResultsSectionShown == presentationData # NullPresentation

\* {inputText.length > 0 && ...}: the selectors and the Generate button
ConfigShown == InputSectionShown /\ Len(inputText) > 0

\* the "Select Document" label
UploadEnabled ==
    InputSectionShown /\ activeTab = "upload" /\ status # "PARSING_PDF"

\* The Generate button without its disabled attribute.
GenerateEnabled_NotGated == ConfigShown

\* the "Generate Presentation" button
GenerateEnabled == ConfigShown /\ status # "GENERATING_CONTENT"

\* the "Download .PPTX" button
DownloadEnabled == ResultsSectionShown /\ status # "GENERATING_PPT"

\* ------------------------------------------------------------ helpers

\* err.message || fallback
OrElse(message, fallback) == IF message = "" THEN fallback ELSE message

\* The try block with text.length <= 50 for text.length < 50.
IngestResult_OffByOne(file) ==
    LET read ==
            IF file.type = "application/pdf" THEN extractTextFromPdf(file)
            ELSE IF file.type = "text/plain" THEN [ok |-> TRUE, text |-> file.content]
            ELSE [ok |-> FALSE, message |-> UnsupportedMsg]
    IN  IF ~read.ok THEN read
        ELSE IF Len(read.text) <= MinTextLen THEN [ok |-> FALSE, message |-> EmptyMsg]
        ELSE read

\* The try block of handleFileUpload: the text it goes on with, or the
\* message of the error it throws.
IngestResult(file) ==
    LET read ==
            IF file.type = "application/pdf" THEN extractTextFromPdf(file)
            ELSE IF file.type = "text/plain" THEN [ok |-> TRUE, text |-> file.content]
            ELSE [ok |-> FALSE, message |-> UnsupportedMsg]
    IN  IF ~read.ok THEN read
        ELSE IF Len(read.text) < MinTextLen THEN [ok |-> FALSE, message |-> EmptyMsg]
        ELSE read

\* The data of the service as it is, without the merge of the visuals.
Merge_NoVisuals(data, template, titleImage) ==
    [title |-> data.title, subtitle |-> data.subtitle, slides |-> data.slides,
     template |-> undefined, titleImage |-> undefined]

\* { ...data, template: config.template, titleImage: config.titleImage }
Merge(data, template, titleImage) ==
    [title |-> data.title, subtitle |-> data.subtitle, slides |-> data.slides,
     template |-> template, titleImage |-> titleImage]

\* The update with image: '' in place of image: undefined on removal.
WithSlideImage_EmptyString(pres, index, image) ==
    [pres EXCEPT !.slides =
        [pres.slides EXCEPT ![index] =
            [@ EXCEPT !.image = IF image = undefined THEN "" ELSE image]]]

\* { ...presentationData, slides: newSlides } with
\* newSlides[index] = { ...newSlides[index], image }
WithSlideImage(pres, index, image) ==
    [pres EXCEPT !.slides = [pres.slides EXCEPT ![index] = [@ EXCEPT !.image = image]]]

\* template={presentationData.template || 'classic'}: the template a slide
\* card is rendered with.
SlideTemplate(pres) ==
    IF pres.template \in {undefined, ""} THEN "classic" ELSE pres.template

\* getHeaderColor of SlidePreview
getHeaderColor(template) ==
    CASE template = "dark" -> "bg-gray-900"
      [] template = "corporate" -> "bg-emerald-700"
      [] template = "modern" -> "bg-slate-900"
      [] OTHER -> "bg-blue-600"

\* backgroundColor of the title slide preview.
TitleSlideColor(template) ==
    IF template = "dark" THEN "#111827"
    ELSE IF template = "corporate" THEN "#059669"
    ELSE "#2563EB"

\* The bullet colour of SlidePreview.
BulletColor(template) ==
    IF template = "dark" THEN "text-indigo-500" ELSE "text-blue-500"

\* ------------------------------------------------------------ actions

\* The tab buttons.
SetActiveTab(tab) ==
    /\ InputSectionShown
    /\ tab # activeTab
    /\ activeTab' = tab
    /\ UNCHANGED <<status, inputText, errorMsg, presentationData, config, apiKey,
                   pending>>

\* The text area's onChange.
TypeText(text) ==
    /\ InputSectionShown
    /\ activeTab = "text"
    /\ text # inputText
    /\ inputText' = text
    /\ UNCHANGED <<status, errorMsg, presentationData, config, activeTab, apiKey,
                   pending>>

\* handleFileUpload to its first await.  A file of another type throws before
\* any await, and the catch block runs in the same step.
handleFileUpload(file) ==
    /\ UploadEnabled
    /\ IF file.type \notin {"application/pdf", "text/plain"}
       THEN /\ errorMsg' = OrElse(IngestResult(file).message, "Failed to parse file.")
            /\ status' = "ERROR"
            /\ UNCHANGED pending
       ELSE /\ CanStart
            /\ status' = "PARSING_PDF"
            /\ errorMsg' = NullMsg
            /\ Started([kind |-> "ingest", file |-> file])
    /\ UNCHANGED <<inputText, presentationData, config, activeTab, apiKey>>

\* The continuation with setInputText(text) moved before the length check.
IngestSettle_StoresFirst(op) ==
    /\ op \in DOMAIN pending
    /\ op.kind = "ingest"
    /\ Settled(op)
    /\ LET r == IngestResult(op.file)
       IN  IF r.ok
           THEN /\ inputText' = r.text
                /\ status' = "IDLE"
                /\ activeTab' = "text"
                /\ UNCHANGED errorMsg
           ELSE /\ errorMsg' = OrElse(r.message, "Failed to parse file.")
                /\ status' = "ERROR"
                /\ inputText' = IF op.file.type = "text/plain" THEN op.file.content
                                ELSE inputText
                /\ UNCHANGED activeTab
    /\ UNCHANGED <<presentationData, config, apiKey>>

\* handleFileUpload from its await on.
IngestSettle(op) ==
    /\ op \in DOMAIN pending
    /\ op.kind = "ingest"
    /\ Settled(op)
    /\ LET r == IngestResult(op.file)
       IN  IF r.ok
           THEN /\ inputText' = r.text
                /\ status' = "IDLE"
                /\ activeTab' = "text"
                /\ UNCHANGED errorMsg
           ELSE /\ errorMsg' = OrElse(r.message, "Failed to parse file.")
                /\ status' = "ERROR"
                /\ UNCHANGED <<inputText, activeTab>>
    /\ UNCHANGED <<presentationData, config, apiKey>>

\* The selectors of config that differ from their initial values.
Distance(c) ==
    Cardinality({f \in {"template", "audience", "numSlides", "detailLevel"} :
                    c[f] # InitialConfig[f]})

\* The template tiles and the audience, length and detail selects: each is
\* setConfig({...config, field: value}).
SelectTemplate(t) ==
    /\ ConfigShown
    /\ config' = [config EXCEPT !.template = t]
    /\ Distance(config') <= MaxConfigEdits
    /\ UNCHANGED <<status, inputText, errorMsg, presentationData, activeTab, apiKey,
                   pending>>

SelectAudience(a) ==
    /\ ConfigShown
    /\ a # config.audience
    /\ config' = [config EXCEPT !.audience = a]
    /\ Distance(config') <= MaxConfigEdits
    /\ UNCHANGED <<status, inputText, errorMsg, presentationData, activeTab, apiKey,
                   pending>>

SelectNumSlides(n) ==
    /\ ConfigShown
    /\ n # config.numSlides
    /\ config' = [config EXCEPT !.numSlides = n]
    /\ Distance(config') <= MaxConfigEdits
    /\ UNCHANGED <<status, inputText, errorMsg, presentationData, activeTab, apiKey,
                   pending>>

SelectDetailLevel(d) ==
    /\ ConfigShown
    /\ d # config.detailLevel
    /\ config' = [config EXCEPT !.detailLevel = d]
    /\ Distance(config') <= MaxConfigEdits
    /\ UNCHANGED <<status, inputText, errorMsg, presentationData, activeTab, apiKey,
                   pending>>

\* handleTitleImageUpload to its await: the cover image tile is rendered while
\* config.titleImage is not set.
handleTitleImageUpload(file) ==
    /\ ConfigShown
    /\ config.titleImage = undefined
    /\ CanStart
    /\ InFlightCount("titleImage") < MaxImageReads
    /\ Started([kind |-> "titleImage", config |-> config, file |-> file])
    /\ UNCHANGED <<status, inputText, errorMsg, presentationData, config, activeTab,
                   apiKey>>

\* handleTitleImageUpload from its await on: {...config, titleImage: base64}
\* with the config of the render the handler was called in.
TitleImageSettle(op, loaded) ==
    /\ op \in DOMAIN pending
    /\ op.kind = "titleImage"
    /\ Settled(op)
    /\ LET r == fileToBase64(op.file, loaded)
       IN  IF r.ok
           THEN /\ config' = [op.config EXCEPT !.titleImage = r.dataUrl]
                /\ UNCHANGED errorMsg
           ELSE /\ errorMsg' = ImageFailMsg
                /\ UNCHANGED config
    /\ UNCHANGED <<status, inputText, presentationData, activeTab, apiKey>>

removeTitleImage ==
    /\ ConfigShown
    /\ config.titleImage # undefined
    /\ config' = [config EXCEPT !.titleImage = undefined]
    /\ UNCHANGED <<status, inputText, errorMsg, presentationData, activeTab, apiKey,
                   pending>>

\* handleGenerate to its await.  Without text it only sets the message.
\* Without the credential initGenAI throws inside generatePresentationContent
\* before any request: the promise is rejected at once and the catch block
\* runs before any other event, so start and failure are one step.
handleGenerate ==
    /\ GenerateEnabled
    /\ IF Trim(inputText) = <<>>
       THEN /\ errorMsg' = NoTextMsg
            /\ UNCHANGED <<status, pending>>
       ELSE IF ~initGenAI(apiKey).ok
       THEN /\ errorMsg' = OrElse(initGenAI(apiKey).message,
                                  "AI Generation failed. Please try again.")
            /\ status' = "ERROR"
            /\ UNCHANGED pending
       ELSE /\ CanStart
            /\ status' = "GENERATING_CONTENT"
            /\ errorMsg' = NullMsg
            /\ Started([kind |-> "generate", template |-> config.template,
                        titleImage |-> config.titleImage])
    /\ UNCHANGED <<inputText, presentationData, config, activeTab, apiKey>>

\* handleGenerate from its await on, the service having settled on response.
GenerateSettle(op, response) ==
    /\ op \in DOMAIN pending
    /\ op.kind = "generate"
    /\ Settled(op)
    /\ LET r == generatePresentationContent(response)
       IN  IF r.ok
           THEN /\ presentationData' = Merge(r.data, op.template, op.titleImage)
                /\ status' = "SUCCESS"
                /\ UNCHANGED errorMsg
           ELSE /\ errorMsg' = OrElse(r.message, "AI Generation failed. Please try again.")
                /\ status' = "ERROR"
                /\ UNCHANGED presentationData
    /\ UNCHANGED <<inputText, config, activeTab, apiKey>>

\* handleUpdateSlideImage(index, file) to its await: a slide card's image
\* input.  The cards are rendered for the slides of presentationData.
attachSlideImage(index, file) ==
    /\ ResultsSectionShown
    /\ index \in 1..Len(presentationData.slides)
    /\ CanStart
    /\ Started([kind |-> "slideImage", presentationData |-> presentationData,
                index |-> index, file |-> file])
    /\ UNCHANGED <<status, inputText, errorMsg, presentationData, config, activeTab,
                   apiKey>>

\* handleUpdateSlideImage from its await on, with the presentationData of the
\* render the handler was called in.  A file that cannot be read changes
\* nothing.
SlideImageSettle(op, loaded) ==
    /\ op \in DOMAIN pending
    /\ op.kind = "slideImage"
    /\ Settled(op)
    /\ LET r == fileToBase64(op.file, loaded)
       IN  IF r.ok
           THEN presentationData' = WithSlideImage(op.presentationData, op.index, r.dataUrl)
           ELSE UNCHANGED presentationData
    /\ UNCHANGED <<status, inputText, errorMsg, config, activeTab, apiKey>>

\* handleUpdateSlideImage(index, null): the remove button of a slide card
\* that shows an image.  There is no await on this path.
removeSlideImage(index) ==
    /\ ResultsSectionShown
    /\ index \in 1..Len(presentationData.slides)
    /\ presentationData.slides[index].image # undefined
    /\ presentationData' = WithSlideImage(presentationData, index, undefined)
    /\ UNCHANGED <<status, inputText, errorMsg, config, activeTab, apiKey, pending>>

\* handleDownload to its await.
handleDownload ==
    /\ DownloadEnabled
    /\ CanStart
    /\ status' = "GENERATING_PPT"
    /\ Started([kind |-> "export"])
    /\ UNCHANGED <<inputText, errorMsg, presentationData, config, activeTab, apiKey>>

\* The continuation without setStatus(SUCCESS) after the export.
ExportSettle_NoSuccess(op, resolved) ==
    /\ op \in DOMAIN pending
    /\ op.kind = "export"
    /\ Settled(op)
    /\ IF resolved
       THEN UNCHANGED <<status, errorMsg>>
       ELSE /\ errorMsg' = PptFailMsg
            /\ status' = "ERROR"
    /\ UNCHANGED <<inputText, presentationData, config, activeTab, apiKey>>

\* handleDownload from its await on.
ExportSettle(op, resolved) ==
    /\ op \in DOMAIN pending
    /\ op.kind = "export"
    /\ Settled(op)
    /\ IF resolved
       THEN /\ status' = "SUCCESS"
            /\ UNCHANGED errorMsg
       ELSE /\ errorMsg' = PptFailMsg
            /\ status' = "ERROR"
    /\ UNCHANGED <<inputText, presentationData, config, activeTab, apiKey>>

\* resetApp without setErrorMsg(null).
resetApp_KeepsError ==
    /\ presentationData' = NullPresentation
    /\ inputText' = <<>>
    /\ status' = "IDLE"
    /\ activeTab' = "upload"
    /\ config' = [config EXCEPT !.titleImage = undefined]
    /\ UNCHANGED <<errorMsg, apiKey, pending>>

\* resetApp with the initial config in place of {...config, titleImage: undefined}.
resetApp_FreshConfig ==
    /\ presentationData' = NullPresentation
    /\ inputText' = <<>>
    /\ status' = "IDLE"
    /\ activeTab' = "upload"
    /\ errorMsg' = NullMsg
    /\ config' = InitialConfig
    /\ UNCHANGED <<apiKey, pending>>

\* The header logo and the "Create New" button.
resetApp ==
    /\ presentationData' = NullPresentation
    /\ inputText' = <<>>
    /\ status' = "IDLE"
    /\ activeTab' = "upload"
    /\ errorMsg' = NullMsg
    /\ config' = [config EXCEPT !.titleImage = undefined]
    /\ UNCHANGED <<apiKey, pending>>

\* The user works with documents, generation, the slides and the export.
Next ==
    \/ \E tab \in {"upload", "text"} : SetActiveTab(tab)
    \/ \E text \in TypedTexts : TypeText(text)
    \/ \E file \in Files : handleFileUpload(file)
    \/ \E op \in DOMAIN pending : IngestSettle(op)
    \/ handleGenerate
    \/ \E op \in DOMAIN pending, response \in Responses : GenerateSettle(op, response)
    \/ \E index \in 1..2, file \in ImageFiles : attachSlideImage(index, file)
    \/ \E op \in DOMAIN pending, loaded \in BOOLEAN : SlideImageSettle(op, loaded)
    \/ \E index \in 1..2 : removeSlideImage(index)
    \/ handleDownload
    \/ \E op \in DOMAIN pending, resolved \in ExportOutcomes : ExportSettle(op, resolved)
    \/ resetApp

Spec == Init /\ [][Next]_vars

\* The user works with the text area, the style controls and generation.
NextConfig ==
    \/ \E tab \in {"upload", "text"} : SetActiveTab(tab)
    \/ \E text \in TypedTexts : TypeText(text)
    \/ \E t \in TemplateId : SelectTemplate(t)
    \/ \E a \in Audiences : SelectAudience(a)
    \/ \E n \in NumSlidesOptions : SelectNumSlides(n)
    \/ \E d \in DetailLevels : SelectDetailLevel(d)
    \/ \E file \in ImageFiles : handleTitleImageUpload(file)
    \/ \E op \in DOMAIN pending, loaded \in BOOLEAN : TitleImageSettle(op, loaded)
    \/ removeTitleImage
    \/ handleGenerate
    \/ \E op \in DOMAIN pending, response \in Responses : GenerateSettle(op, response)
    \/ resetApp

SpecConfig == Init /\ [][NextConfig]_vars

\* The user works with the text area, the template tiles and generation.
NextTemplate ==
    \/ \E tab \in {"upload", "text"} : SetActiveTab(tab)
    \/ \E text \in TypedTexts : TypeText(text)
    \/ \E t \in TemplateId : SelectTemplate(t)
    \/ handleGenerate
    \/ \E op \in DOMAIN pending, response \in Responses : GenerateSettle(op, response)
    \/ resetApp

SpecTemplate == Init /\ [][NextTemplate]_vars

\* The user works with the text area, the style controls and the cover image.
NextSelect ==
    \/ \E tab \in {"upload", "text"} : SetActiveTab(tab)
    \/ \E text \in TypedTexts : TypeText(text)
    \/ \E t \in TemplateId : SelectTemplate(t)
    \/ \E a \in Audiences : SelectAudience(a)
    \/ \E n \in NumSlidesOptions : SelectNumSlides(n)
    \/ \E d \in DetailLevels : SelectDetailLevel(d)
    \/ \E file \in ImageFiles : handleTitleImageUpload(file)
    \/ \E op \in DOMAIN pending, loaded \in BOOLEAN : TitleImageSettle(op, loaded)
    \/ removeTitleImage
    \/ resetApp

SpecSelect == Init /\ [][NextSelect]_vars

\* The user works with the text area and generation, and the service answers
\* with any JSON.
NextService ==
    \/ \E tab \in {"upload", "text"} : SetActiveTab(tab)
    \/ \E text \in TypedTexts : TypeText(text)
    \/ handleGenerate
    \/ \E op \in DOMAIN pending, response \in ServiceResponses :
          GenerateSettle(op, response)
    \/ resetApp

SpecService == Init /\ [][NextService]_vars

\* The user uploads PDFs of all sizes, one after the other.
NextPdf ==
    \/ \E tab \in {"upload", "text"} : SetActiveTab(tab)
    \/ \E file \in PdfFiles : handleFileUpload(file)
    \/ \E op \in DOMAIN pending : IngestSettle(op)

SpecPdf == Init /\ [][NextPdf]_vars

\* The files of the behaviours below: one that is ingested, one that is too
\* short and one of an unsupported type.
LiveFiles == {TxtFile(MinTextLen), TxtFile(MinTextLen - 1), PngFile}

\* The user uploads, generates from the ingested text, exports and resets.
NextLive ==
    \/ \E tab \in {"upload", "text"} : SetActiveTab(tab)
    \/ \E file \in LiveFiles : handleFileUpload(file)
    \/ \E op \in DOMAIN pending : IngestSettle(op)
    \/ handleGenerate
    \/ \E op \in DOMAIN pending, response \in Responses : GenerateSettle(op, response)
    \/ handleDownload
    \/ \E op \in DOMAIN pending, resolved \in ExportOutcomes : ExportSettle(op, resolved)
    \/ resetApp

\* Every started read, request and export settles: the promise a handler
\* awaits is resolved or rejected, and its continuation then runs.
SpecLive ==
    /\ Init
    /\ [][NextLive]_vars
    /\ WF_vars(\E op \in DOMAIN pending : IngestSettle(op))
    /\ WF_vars(\E op \in DOMAIN pending, response \in Responses :
                  GenerateSettle(op, response))
    /\ WF_vars(\E op \in DOMAIN pending, resolved \in ExportOutcomes :
                  ExportSettle(op, resolved))

\* ------------------------------------------------------------- claims

\* This step settles the operation op: the code after its await runs.
Settles(op) == op \in DOMAIN pending /\ pending' = pending (-) SetToBag({op})

\* C1: a reset step, from whatever state and with whatever operations in
\* flight, ends with status IDLE, no presentation, an empty input text and no
\* error message.
C1_ResetYieldsInitial ==
    [][resetApp =>
          /\ status' = "IDLE"
          /\ presentationData' = NullPresentation
          /\ inputText' = <<>>
          /\ errorMsg' = NullMsg]_vars

\* A reset taken while an operation was in flight: the input text is empty
\* again (only a reset empties it) and the operation has not settled yet.
C1_Witness ==
    /\ status = "IDLE"
    /\ presentationData = NullPresentation
    /\ inputText = <<>>
    /\ errorMsg = NullMsg
    /\ pending # EmptyBag

\* C2: while status is GENERATING_CONTENT no step is a call of handleGenerate,
\* and no step sends another request to the generation service.
C2_GenerateIsNoOpWhileGenerating ==
    [][status = "GENERATING_CONTENT" =>
          /\ ~handleGenerate
          /\ InFlightCount("generate")' <= InFlightCount("generate")]_vars

\* The Generate button is rendered, and disabled, with a request in flight.
C2_Witness ==
    /\ status = "GENERATING_CONTENT"
    /\ ConfigShown
    /\ Trim(inputText) # <<>>
    /\ InFlightCount("generate") = 1

\* C3: at most one generation request is in flight.
C3_AtMostOneGeneration == InFlightCount("generate") <= 1

\* C4: while status is PARSING_PDF no file upload is accepted, and no step
\* starts an ingestion or a generation.
C4_ParsingBlocksIngestionAndGeneration ==
    [][status = "PARSING_PDF" =>
          /\ ~(\E file \in Files : handleFileUpload(file))
          /\ InFlightCount("generate")' <= InFlightCount("generate")
          /\ InFlightCount("ingest")' <= InFlightCount("ingest")]_vars

\* C5: a generation that settles on a JSON response sets status SUCCESS and a
\* presentation of the response's title, subtitle and slides with the template
\* and title image that config holds at that moment.
C5_MergesCurrentConfig ==
    [][\A op \in DOMAIN pending, response \in Responses :
          (GenerateSettle(op, response) /\ response.hasText /\ response.isJson) =>
              /\ status' = "SUCCESS"
              /\ presentationData'.title = response.value.title
              /\ presentationData'.subtitle = response.value.subtitle
              /\ presentationData'.slides = response.value.slides
              /\ presentationData'.template = config'.template
              /\ presentationData'.titleImage = config'.titleImage]_vars

\* C6: after a generation fails (the credential is missing, or the request
\* settles without a presentation) status is ERROR, a message is set and there
\* is no presentation.
C6_FailedGenerationLeavesNoPresentation ==
    [][(\/ handleGenerate /\ Trim(inputText) # <<>> /\ ~apiKey
        \/ \E op \in DOMAIN pending :
              op.kind = "generate" /\ Settles(op) /\ status' # "SUCCESS") =>
          /\ status' = "ERROR"
          /\ errorMsg' # NullMsg
          /\ presentationData' = NullPresentation]_vars

\* C7: an export that fails takes status from GENERATING_PPT to ERROR with a
\* message, leaves the presentation as it was and leaves the download button
\* enabled; an export that succeeds takes status from GENERATING_PPT to
\* SUCCESS and leaves the presentation as it was.
C7_ExportKeepsPresentation ==
    [][\A op \in DOMAIN pending, resolved \in ExportOutcomes :
          ExportSettle(op, resolved) =>
              /\ status = "GENERATING_PPT"
              /\ presentationData' = presentationData
              /\ presentationData' # NullPresentation
              /\ IF resolved
                 THEN status' = "SUCCESS"
                 ELSE status' = "ERROR" /\ errorMsg' # NullMsg /\ DownloadEnabled']_vars

\* The files whose ingestion fails: a type other than PDF and plain text, a
\* PDF the engine cannot read, or a text shorter than MinTextLen.
FailsIngestion(file) ==
    \/ file.type \notin {"application/pdf", "text/plain"}
    \/ file.type = "application/pdf" /\ file.corrupt
    \/ file.type = "application/pdf" /\ ~file.corrupt
          /\ Len(extractTextFromPdf(file).text) < MinTextLen
    \/ file.type = "text/plain" /\ Len(file.content) < MinTextLen

\* C8: the step in which an ingestion fails (at once for an unsupported type,
\* else when the read settles) sets status ERROR and a non-empty message and
\* leaves inputText as it was.
C8_FailedIngestionKeepsText ==
    [][\A file \in Files :
          (/\ FailsIngestion(file)
           /\ \/ handleFileUpload(file)
                    /\ file.type \notin {"application/pdf", "text/plain"}
              \/ Settles([kind |-> "ingest", file |-> file])) =>
              /\ status' = "ERROR"
              /\ errorMsg' \notin {NullMsg, ""}
              /\ inputText' = inputText]_vars

\* A text ingested earlier is still the input text after a later file was
\* rejected as empty or unreadable.
C8_Witness ==
    /\ status = "ERROR"
    /\ errorMsg = EmptyMsg
    /\ inputText = TxtFile(MinTextLen).content

\* The text read from an accepted file that can be read.
ReadText(file) ==
    IF file.type = "text/plain" THEN file.content ELSE extractTextFromPdf(file).text

\* C9: when the read of an accepted, readable file settles, a text of at
\* least MinTextLen characters becomes inputText unchanged with status IDLE,
\* and a shorter one fails with the empty-or-unreadable message.
C9_IngestionSucceedsIffLongEnough ==
    [][\A file \in Files :
          (/\ file.type \in {"application/pdf", "text/plain"}
           /\ file.type = "application/pdf" => ~file.corrupt
           /\ Settles([kind |-> "ingest", file |-> file])) =>
              IF Len(ReadText(file)) >= MinTextLen
              THEN inputText' = ReadText(file) /\ status' = "IDLE"
              ELSE /\ status' = "ERROR"
                   /\ errorMsg' = EmptyMsg
                   /\ inputText' = inputText]_vars

\* A plain-text file of exactly MinTextLen characters has been ingested.
C9_Witness ==
    /\ status = "IDLE"
    /\ Len(inputText) = MinTextLen
    /\ inputText = TxtFile(MinTextLen).content
    /\ activeTab = "text"

\* This step changes nothing but the image of slide index.
OnlySlideImageChanged(index) ==
    /\ status' = status
    /\ errorMsg' = errorMsg
    /\ inputText' = inputText
    /\ config' = config
    /\ presentationData' # NullPresentation
    /\ presentationData'.title = presentationData.title
    /\ presentationData'.subtitle = presentationData.subtitle
    /\ presentationData'.template = presentationData.template
    /\ presentationData'.titleImage = presentationData.titleImage
    /\ Len(presentationData'.slides) = Len(presentationData.slides)
    /\ \A j \in 1..Len(presentationData.slides) :
          IF j = index
          THEN [presentationData'.slides[j] EXCEPT !.image = undefined]
                  = [presentationData.slides[j] EXCEPT !.image = undefined]
          ELSE presentationData'.slides[j] = presentationData.slides[j]

\* C10: in SUCCESS, the step in which an attach settles, and the step of a
\* remove, change only the image of the slide they name.
C10_SlideImageEditFrame ==
    [][/\ \A op \in DOMAIN pending :
             (/\ op.kind = "slideImage"
              /\ Settles(op)
              /\ status = "SUCCESS"
              /\ presentationData # NullPresentation
              /\ op.index \in 1..Len(presentationData.slides)) =>
                 OnlySlideImageChanged(op.index)
       /\ \A index \in 1..2 :
             (status = "SUCCESS" /\ removeSlideImage(index)) =>
                 OnlySlideImageChanged(index)]_vars

\* C11: when an attach to slide i settles, removing the image of slide i from
\* the result gives a presentation whose slide i has no image and which, if
\* slide i had no image when the attach was called, is the presentation the
\* attach was called on; and a remove step is that removal.
C11_AttachThenRemoveRoundTrip ==
    [][/\ \A op \in DOMAIN pending :
             (op.kind = "slideImage" /\ SlideImageSettle(op, TRUE)) =>
                 LET removed == WithSlideImage(presentationData', op.index, undefined)
                 IN  /\ presentationData'.slides[op.index].image # undefined
                     /\ removed.slides[op.index].image = undefined
                     /\ op.presentationData.slides[op.index].image = undefined =>
                            removed = op.presentationData
       /\ \A index \in 1..2 :
             removeSlideImage(index) =>
                 /\ presentationData'.slides[index].image = undefined
                 /\ \A file \in ImageFiles :
                        WithSlideImage(presentationData', index,
                                       fileToBase64(file, TRUE).dataUrl) = presentationData
                        => presentationData' =
                              WithSlideImage(
                                  WithSlideImage(presentationData', index,
                                                 fileToBase64(file, TRUE).dataUrl),
                                  index, undefined)]_vars

\* Attaches have settled and nothing is in flight; slide 2 shows an image and
\* slide 1 none, as after an attach to slide 1 followed by its removal.
C11_Witness ==
    /\ presentationData # NullPresentation
    /\ Len(presentationData.slides) = 2
    /\ presentationData.slides[1].image = undefined
    /\ presentationData.slides[2].image # undefined
    /\ pending = EmptyBag
    /\ status = "SUCCESS"

\* Template values outside the four identifiers: unset, empty, unknown.
UnknownTemplates == {undefined, "", "neon"}

\* C12: config.template is one of the four identifiers, the template of a
\* present presentation is one of the four and is the one its slides are
\* rendered with, and a template that is unset or unknown is rendered as
\* "classic".
C12_TemplateNormalized ==
    /\ config.template \in TemplateId
    /\ presentationData # NullPresentation =>
          /\ presentationData.template \in TemplateId
          /\ SlideTemplate(presentationData) = presentationData.template
    /\ \A x \in UnknownTemplates :
          /\ getHeaderColor(x) = getHeaderColor("classic")
          /\ BulletColor(x) = BulletColor("classic")
          /\ TitleSlideColor(x) = TitleSlideColor("classic")
          /\ x \in {undefined, ""} =>
                SlideTemplate([template |-> x]) = "classic"

\* A presentation generated with a template other than the initial one.
C12_Witness ==
    /\ presentationData # NullPresentation
    /\ presentationData.template = "dark"
    /\ config.template = "dark"
    /\ status = "SUCCESS"

\* C13: a reset step leaves config without a title image and with the
\* template, audience, number of slides and detail level it had.
C13_ResetKeepsSelections ==
    [][resetApp =>
          /\ config'.titleImage = undefined
          /\ config'.template = config.template
          /\ config'.audience = config.audience
          /\ config'.numSlides = config.numSlides
          /\ config'.detailLevel = config.detailLevel]_vars

\* After a reset (nothing else empties the input text) a selection made
\* before it is still in config, and there is no title image.
C13_Witness ==
    /\ inputText = <<>>
    /\ status = "IDLE"
    /\ Distance(config) > 0
    /\ config.titleImage = undefined
    /\ pending = EmptyBag

\* The steps that are an explicit user action starting an ingestion, a
\* generation or an export, or a reset.
UserAction ==
    \/ \E file \in Files : handleFileUpload(file)
    \/ handleGenerate
    \/ handleDownload
    \/ resetApp

\* C14: a step that takes status out of ERROR is an explicit user action
\* (an upload, a generate, a download or a reset).
C14_ErrorLeftOnlyByUserAction ==
    [][(status = "ERROR" /\ status' # "ERROR") => UserAction]_vars

\* C15: status IDLE implies that no presentation is present.
C15_IdleHasNoPresentation ==
    status = "IDLE" => presentationData = NullPresentation

\* C16: the presentation is absent, or it has a title and a sequence of
\* slides, whatever the service answered.
C16_AbsentOrPopulated ==
    \/ presentationData = NullPresentation
    \/ /\ presentationData.title \notin {undefined, ""}
       /\ Len(presentationData.slides) >= 0

\* C17: an error message is present only while status is ERROR.
C17_MessageImpliesError ==
    errorMsg # NullMsg => status = "ERROR"

\* C18: a step that takes the presentation from absent to present is the
\* settling of a generation on a result.
C18_CreatedOnlyByGeneration ==
    [][(presentationData = NullPresentation /\ presentationData' # NullPresentation) =>
          \E op \in DOMAIN pending, response \in Responses :
              /\ GenerateSettle(op, response)
              /\ generatePresentationContent(response).ok]_vars

\* C19: at most one export is in flight.
C19_AtMostOneExport == InFlightCount("export") <= 1

\* C20: without the credential no request to the generation service is ever
\* in flight, and a click on Generate with text in the input ends, in that
\* step, with status ERROR, the message of the missing key, no request sent
\* and no presentation.
C20_MissingKeyFailsFast ==
    [][~apiKey =>
          /\ InFlightCount("generate") = 0
          /\ InFlightCount("generate")' = 0
          /\ (handleGenerate /\ Trim(inputText) # <<>>) =>
                /\ status' = "ERROR"
                /\ errorMsg' = ApiKeyMsg
                /\ pending' = pending
                /\ presentationData' = NullPresentation]_vars

\* Generate was clicked without the credential.
C20_Witness ==
    /\ ~apiKey
    /\ status = "ERROR"
    /\ errorMsg = ApiKeyMsg
    /\ Trim(inputText) # <<>>
    /\ presentationData = NullPresentation

\* The text of pages 1..min(n, MaxPdfPages) of PdfOf(n, len), character by
\* character: page k takes 2 * len + 3 places, its two items with a blank
\* between them and two line feeds after them.
PagesText(n, len) ==
    LET width == 2 * len + 3
    IN  [i \in 1..(Min(n, MaxPdfPages) * width) |->
            LET k == ((i - 1) \div width) + 1
                j == ((i - 1) % width) + 1
            IN  IF j = len + 1 THEN " "
                ELSE IF j > 2 * len + 1 THEN "\n"
                ELSE PageChars[k]]

\* C21: the text extracted from a PDF of n pages is the texts of pages
\* 1..min(n, MaxPdfPages) in ascending order, each followed by a blank line,
\* with nothing of a later page in it; when the read of such a file settles
\* and the text is long enough, that text is the input text.
C21_FirstPagesInOrder ==
    [][\A file \in PdfFiles :
          Settles([kind |-> "ingest", file |-> file]) =>
              LET n == Len(file.pages)
                  len == IF n = 0 THEN 0 ELSE Len(file.pages[1][1])
                  text == extractTextFromPdf(file).text
              IN  /\ extractTextFromPdf(file).ok
                  /\ text = PagesText(n, len)
                  /\ \A k \in (MaxPdfPages + 1)..n :
                        \A i \in 1..Len(text) : text[i] # PageChars[k]
                  /\ \A k \in 1..Min(n, MaxPdfPages) :
                        \E i \in 1..Len(text) : text[i] = PageChars[k]
                  /\ Len(text) >= MinTextLen =>
                        inputText' = PagesText(n, len) /\ status' = "IDLE"]_vars

\* A PDF of more pages than the limit has been ingested: the input text ends
\* with page MaxPdfPages.
C21_Witness ==
    /\ status = "IDLE"
    /\ inputText = PagesText(MaxPdfPages + ExtraPages, 2)
    /\ Len(inputText) = MaxPdfPages * 7
    /\ inputText[Len(inputText) - 2] = PageChars[MaxPdfPages]

\* C22: status SUCCESS implies that a presentation is present.
C22_SuccessHasPresentation ==
    status = "SUCCESS" => presentationData # NullPresentation

\* The state a reset leaves.
ResetState ==
    /\ status = "IDLE"
    /\ presentationData = NullPresentation
    /\ inputText = <<>>
    /\ errorMsg = NullMsg
    /\ config.titleImage = undefined

\* C23: in the state a reset leaves, the settling of an operation that was
\* in flight at the reset changes none of status, presentation, input text,
\* error message and title image.
C23_OutcomeAfterResetDiscarded ==
    [][(ResetState /\ \E op \in DOMAIN pending : Settles(op)) => ResetState']_vars

\* C24: when an attach to slide i settles on the deck it was started on, the
\* image of every other slide is what it was just before: an image attached
\* to it in the meantime is still set, one removed in the meantime still absent.
C24_SlideImageEditsNotLost ==
    [][\A op \in DOMAIN pending :
          (/\ op.kind = "slideImage"
           /\ SlideImageSettle(op, TRUE)
           /\ presentationData # NullPresentation
           /\ Len(presentationData.slides) = Len(op.presentationData.slides)) =>
              \A j \in 1..Len(presentationData.slides) :
                  j # op.index =>
                      presentationData'.slides[j].image = presentationData.slides[j].image]_vars

\* C25: when a title image read settles, template, audience, number of
\* slides and detail level are what they were just before.
C25_TitleImageKeepsSelections ==
    [][\A op \in DOMAIN pending, loaded \in BOOLEAN :
          (op.kind = "titleImage" /\ TitleImageSettle(op, loaded)) =>
              /\ config'.template = config.template
              /\ config'.audience = config.audience
              /\ config'.numSlides = config.numSlides
              /\ config'.detailLevel = config.detailLevel]_vars

Busy == status \in {"PARSING_PDF", "GENERATING_CONTENT", "GENERATING_PPT"}

\* A busy status has its operation in flight.
BusyHasOperation ==
    /\ status = "PARSING_PDF" => InFlightCount("ingest") >= 1
    /\ status = "GENERATING_CONTENT" => InFlightCount("generate") >= 1
    /\ status = "GENERATING_PPT" => InFlightCount("export") >= 1

\* C26: a busy status always has an operation of its kind in flight, and
\* when every started operation settles a busy status is followed by IDLE,
\* SUCCESS or ERROR.
C26_BusyNotStuck ==
    /\ []BusyHasOperation
    /\ Busy ~> (status \in {"IDLE", "SUCCESS", "ERROR"})

\* An export was started while a generation was still in flight.
C26_Witness ==
    /\ status = "GENERATING_PPT"
    /\ InFlightCount("export") = 1
    /\ InFlightCount("generate") = 1

====
